---- MODULE Spec2Model ----
(***************************************************************************)
(* A model of database_extractor.py (DatabaseExtractor and the __main__    *)
(* block).  One run of the script is a sequential process: pc is the step  *)
(* of run_extraction about to execute.  The database, the file system and  *)
(* the wall clock are the environment: every driver or file-system call    *)
(* either succeeds or raises an Exception, chosen nondeterministically,    *)
(* and a KeyboardInterrupt may arrive between any two steps.               *)
(*                                                                         *)
(* calls and errors are history variables (the calls made, in order, and   *)
(* the exceptions raised, in order; an exception is identified by its      *)
(* index in errors).  Lines printed without a tag (the "====" rulers,      *)
(* "Exporting Data...", the file listing) are left out of console.         *)
(***************************************************************************)
EXTENDS Integers, Sequences, FiniteSets, TLC

\* ------------------------------------------------------------- bounds
MaxClock == 2          \* the wall clock runs over 0..MaxClock ticks
TicksPerSecond == 2    \* clock ticks per second of wall-clock time
MaxRuns == 2           \* successive runs of the script (SpecRuns)
MaxLimit == 2          \* limits tried by direct calls of export_table_to_json
MaxCalls == 2          \* direct calls of export_table_to_json (SpecJson)

\* ------------------------------------------------- program constants
DefaultLimit == 1000

QueryNames ==
  <<"sessions_overview", "tick_performance", "player_locations", "recent_activity">>

\* ---------------------------------------------------- the environment
\* The tables the public schema may hold, in ORDER BY table_name order.
AllTables == <<"game_ticks", "sessions">>

\* The row counts a table may have.
RowCounts == {0, 1, 5}

\* information_schema.columns of a table, by ordinal position.
Columns(t) ==
  IF t = "sessions"
    THEN <<"session_id", "player_name", "start_time">>
    ELSE <<"session_id", "tick_number">>

VARIABLES
  pc,           \* the step of run_extraction about to run, or "exited"
  run,          \* the number of this run of the script
  clock,        \* the last wall-clock reading, in ticks
  db,           \* the database: table name -> number of rows
  fs,           \* directories on disk: [dir, run] for each run that made dir
  conn,         \* self.conn: "none", "open" or "closed"
  output_dir,   \* self.output_dir
  tables,       \* run_extraction's tables
  tables_info,  \* run_extraction's tables_info
  i,            \* position of the running for-loop in tables
  csvFiles,     \* <output_dir>/csv/<table>.csv
  jsonFiles,    \* <output_dir>/json/<table>.json
  summary,      \* <output_dir>/summary/database_summary.json
  results,      \* <output_dir>/summary/sample_queries_results.txt
  console,      \* the tagged lines printed so far
  calls,        \* history: the calls made, in order
  errors,       \* history: the exceptions raised, in order
  sql,          \* history: number of cursor.execute calls
  outcome,      \* "running", "success", "failed" or "cancelled"
  exitStatus    \* <<>> while the process runs, <<status>> once it has exited

vars ==
  <<pc, run, clock, db, fs, conn, output_dir, tables, tables_info, i, csvFiles,
    jsonFiles, summary, results, console, calls, errors, sql, outcome, exitStatus>>

\* ------------------------------------------------------------ helpers
Min(a, b) == IF a < b THEN a ELSE b

TableSet == {AllTables[k] : k \in 1..Len(AllTables)}

Say(con, tag, what, arg, e) ==
  Append(con, [tag |-> tag, what |-> what, arg |-> arg, e |-> e])

Call(op, arg, ok, limit) == [op |-> op, arg |-> arg, ok |-> ok, limit |-> limit]

Err(kind, arg) == [kind |-> kind, arg |-> arg]

NoFile == [exists |-> FALSE, header |-> <<>>, data |-> <<>>]

NoSummary ==
  [written |-> FALSE, export_timestamp |-> 0, total_tables |-> 0,
   total_rows |-> 0, tables |-> <<>>]

NoResults == [exists |-> FALSE, entries |-> <<>>]

\* datetime.now().strftime('%Y%m%d_%H%M%S'): the reading cut to whole seconds.
strftime(now) == now \div TicksPerSecond

DirName(timestamp) == <<"database_export", timestamp>>

\* SELECT * FROM t: the rows of t, each identified by its position.
SelectAll(t) == [k \in 1..db[t] |-> k]

\* The steps of run_extraction, in program order.
StepOrderEarlyClose ==
  <<"connect", "mkdir", "list", "describe", "export", "summary", "close",
    "queries", "banner">>

StepOrderSummaryFirst ==
  <<"connect", "mkdir", "list", "describe", "summary", "export", "queries",
    "close", "banner">>

StepOrder ==
  <<"connect", "mkdir", "list", "describe", "export", "summary", "queries",
    "close", "banner">>

NextStep(p) ==
  LET k == CHOOSE j \in 1..Len(StepOrder) : StepOrder[j] = p
  IN IF k = Len(StepOrder) THEN "end" ELSE StepOrder[k + 1]

\* The pc at which a step begins: a for-loop over no tables is skipped.
RECURSIVE Enter(_, _)
Enter(step, ts) ==
  IF step = "end" THEN "exited"
  ELSE IF step \in {"describe", "export"} /\ ts = <<>> THEN Enter(NextStep(step), ts)
  ELSE IF step = "export" THEN "csv"
  ELSE step

\* An exception e escapes run_extraction: __main__ prints the banner and the
\* script runs off its end.
Propagate(con, e) ==
  /\ console' = Say(con, "[ERROR]", "Extraction failed", "", e)
  /\ pc' = "exited"
  /\ outcome' = "failed"
  /\ exitStatus' = <<0>>

\* ------------------------------------------------------------ connect
connect_swallows == FALSE

connect_reraises == TRUE

connect ==
  /\ pc = "connect"
  /\ \E ok \in BOOLEAN :
       /\ calls' = Append(calls, Call("connect", "", ok, 0))
       /\ IF ok
            THEN /\ conn' = "open"
                 /\ console' = Say(console, "[OK]", "Connected to database", "", 0)
                 /\ pc' = Enter(NextStep("connect"), tables)
                 /\ UNCHANGED <<errors, outcome, exitStatus>>
            ELSE LET e == Len(errors) + 1
                     con == Say(console, "[ERROR]", "Database connection failed", "", e)
                 IN /\ errors' = Append(errors, Err("connect", ""))
                    /\ UNCHANGED conn
                    /\ IF connect_reraises
                         THEN Propagate(con, e)
                         ELSE /\ console' = con
                              /\ pc' = Enter(NextStep("connect"), tables)
                              /\ UNCHANGED <<outcome, exitStatus>>
  /\ UNCHANGED <<run, clock, db, fs, output_dir, tables, tables_info, i, csvFiles,
                 jsonFiles, summary, results, sql>>

\* ---------------------------------------------- create_output_structure
create_output_structure ==
  /\ pc = "mkdir"
  /\ \E now \in clock..MaxClock, ok \in BOOLEAN :
       /\ clock' = now
       /\ output_dir' = DirName(strftime(now))
       /\ calls' = Append(calls, Call("mkdir", "", ok, 0))
       /\ IF ok
            THEN /\ fs' = fs \cup {[dir |-> output_dir', run |-> run]}
                 /\ console' = Say(console, "[INFO]", "Created export directory", "", 0)
                 /\ pc' = Enter(NextStep("mkdir"), tables)
                 /\ UNCHANGED <<errors, outcome, exitStatus>>
            ELSE /\ errors' = Append(errors, Err("mkdir", ""))
                 /\ Propagate(console, Len(errors) + 1)
                 /\ UNCHANGED fs
  /\ UNCHANGED <<run, db, conn, tables, tables_info, i, csvFiles, jsonFiles,
                 summary, results, sql>>

\* ------------------------------------------------------ get_all_tables
get_all_tables ==
  /\ pc = "list"
  /\ sql' = sql + 1
  /\ \E ok \in BOOLEAN :
       /\ calls' = Append(calls, Call("list", "", ok, 0))
       /\ IF ok
            THEN /\ tables' = SelectSeq(AllTables, LAMBDA t : t \in DOMAIN db)
                 /\ console' = Say(console, "[INFO]", "Found tables", "", 0)
                 /\ pc' = Enter(NextStep("list"), tables')
                 /\ UNCHANGED <<errors, outcome, exitStatus>>
            ELSE /\ errors' = Append(errors, Err("schema", ""))
                 /\ Propagate(console, Len(errors) + 1)
                 /\ UNCHANGED tables
  /\ i' = 1
  /\ UNCHANGED <<run, clock, db, fs, conn, output_dir, tables_info, csvFiles,
                 jsonFiles, summary, results>>

\* ------------------------------------------------------ get_table_info
get_table_info ==
  /\ pc = "describe"
  /\ i <= Len(tables)
  /\ LET t == tables[i] IN
     \E ok \in BOOLEAN :
       /\ calls' = Append(calls, Call("describe", t, ok, 0))
       /\ IF ok
            THEN /\ sql' = sql + 2
                 /\ tables_info' =
                      (t :> [columns |-> Columns(t), row_count |-> db[t]]) @@ tables_info
                 /\ console' = Say(console, "[TABLE]", "rows and columns", t, 0)
                 /\ IF i = Len(tables)
                      THEN pc' = Enter(NextStep("describe"), tables) /\ i' = 1
                      ELSE pc' = pc /\ i' = i + 1
                 /\ UNCHANGED <<errors, outcome, exitStatus>>
            ELSE /\ sql' = sql + 1
                 /\ errors' = Append(errors, Err("schema", t))
                 /\ Propagate(console, Len(errors) + 1)
                 /\ UNCHANGED <<tables_info, i>>
  /\ UNCHANGED <<run, clock, db, fs, conn, output_dir, tables, csvFiles, jsonFiles,
                 summary, results>>

\* ------------------------------------------------- export_table_to_csv
\* The except branch of export_table_to_csv.
csv_except_silent(con, t, e) == con

csv_except(con, t, e) == Say(con, "[WARN]", "Failed to export to CSV", t, e)

\* Whether the try block of export_table_to_csv encloses the whole body.
csv_uncaught == FALSE

csv_catches == TRUE

export_table_to_csv(t, ok) ==
  /\ sql' = sql + 1
  /\ calls' = Append(calls, Call("csv", t, ok, 0))
  /\ IF ok
       THEN /\ csvFiles' = [csvFiles EXCEPT ![t] =
                 [exists |-> TRUE, header |-> Columns(t), data |-> SelectAll(t)]]
            /\ console' = Say(console, "[CSV]", "Exported to CSV", t, 0)
            /\ UNCHANGED errors
       ELSE /\ errors' = Append(errors, Err("csv", t))
            /\ console' = csv_except(console, t, Len(errors) + 1)
            /\ UNCHANGED csvFiles

ExportCsv ==
  /\ pc = "csv"
  /\ i <= Len(tables)
  /\ \E ok \in BOOLEAN :
       IF ok \/ csv_catches
         THEN /\ export_table_to_csv(tables[i], ok)
              /\ pc' = "json"
              /\ UNCHANGED <<outcome, exitStatus>>
         ELSE /\ sql' = sql + 1
              /\ calls' = Append(calls, Call("csv", tables[i], ok, 0))
              /\ errors' = Append(errors, Err("csv", tables[i]))
              /\ Propagate(console, Len(errors) + 1)
              /\ UNCHANGED csvFiles
  /\ UNCHANGED <<run, clock, db, fs, conn, output_dir, tables, tables_info, i,
                 jsonFiles, summary, results>>

\* ------------------------------------------------ export_table_to_json
\* SELECT * FROM t LIMIT limit: the first limit rows of t, or all of them.
SelectNoLimit(t, limit) == SelectAll(t)

SelectLimit(t, limit) == SubSeq(SelectAll(t), 1, Min(limit, db[t]))

\* One row_dict per fetched row.
RowDicts(rows) == [k \in 1..Len(rows) |-> [row |-> rows[k]]]

json_except(con, t, e) == Say(con, "[WARN]", "Failed to export to JSON", t, e)

export_table_to_json(t, limit, ok) ==
  /\ sql' = sql + 1
  /\ calls' = Append(calls, Call("json", t, ok, limit))
  /\ IF ok
       THEN /\ jsonFiles' = [jsonFiles EXCEPT ![t] =
                 [exists |-> TRUE, header |-> Columns(t),
                  data |-> RowDicts(SelectLimit(t, limit))]]
            /\ console' = Say(console, "[JSON]", "Exported to JSON", t, 0)
            /\ UNCHANGED errors
       ELSE /\ errors' = Append(errors, Err("json", t))
            /\ console' = json_except(console, t, Len(errors) + 1)
            /\ UNCHANGED jsonFiles

ExportJson ==
  /\ pc = "json"
  /\ i <= Len(tables)
  /\ \E ok \in BOOLEAN : export_table_to_json(tables[i], DefaultLimit, ok)
  /\ IF i = Len(tables)
       THEN pc' = Enter(NextStep("export"), tables) /\ i' = 1
       ELSE pc' = "csv" /\ i' = i + 1
  /\ UNCHANGED <<run, clock, db, fs, conn, output_dir, tables, tables_info,
                 csvFiles, summary, results, outcome, exitStatus>>

\* --------------------------------------------- generate_summary_report
\* The keys of tables_info in insertion order (tables are described in
\* the order get_all_tables returned them).
DictKeys(info) == SelectSeq(AllTables, LAMBDA t : t \in DOMAIN info)

\* The loop "for table_name, info in tables_info.items(): total_rows += ...".
RECURSIVE Accumulate(_, _, _, _)
Accumulate(info, keys, k, total) ==
  IF k > Len(keys) THEN total
  ELSE Accumulate(info, keys, k + 1, total + info[keys[k]].row_count)

total_rows_assigned(info) ==
  IF DictKeys(info) = <<>> THEN 0
  ELSE info[DictKeys(info)[Len(DictKeys(info))]].row_count

total_rows(info) == Accumulate(info, DictKeys(info), 1, 0)

Summary(info, now) ==
  [written |-> TRUE,
   export_timestamp |-> now,
   total_tables |-> Len(DictKeys(info)),
   total_rows |-> total_rows(info),
   tables |-> [k \in 1..Len(DictKeys(info)) |->
                 [name |-> DictKeys(info)[k],
                  row_count |-> info[DictKeys(info)[k]].row_count,
                  column_count |-> Len(info[DictKeys(info)[k]].columns)]]]

generate_summary_report ==
  /\ pc = "summary"
  /\ \E now \in clock..MaxClock, ok \in BOOLEAN :
       /\ clock' = now
       /\ calls' = Append(calls, Call("summary", "", ok, 0))
       /\ IF ok
            THEN /\ summary' = Summary(tables_info, now)
                 /\ console' = Say(console, "[SUMMARY]", "Generated summary reports", "", 0)
                 /\ pc' = Enter(NextStep("summary"), tables)
                 /\ UNCHANGED <<errors, outcome, exitStatus>>
            ELSE /\ errors' = Append(errors, Err("summary", ""))
                 /\ Propagate(console, Len(errors) + 1)
                 /\ UNCHANGED summary
  /\ UNCHANGED <<run, db, fs, conn, output_dir, tables, tables_info, i, csvFiles,
                 jsonFiles, results, sql>>

\* ------------------------------------------------ export_sample_queries
\* Number of queries among the first k that failed.
RECURSIVE FailedUpTo(_, _)
FailedUpTo(outs, k) ==
  IF k = 0 THEN 0 ELSE FailedUpTo(outs, k - 1) + (IF outs[k] THEN 0 ELSE 1)

\* What the loop writes for query k: header and SQL text first, then the
\* result rows, or the message of the exception the except branch caught.
QueryEntry(outs, k, base) ==
  [name |-> QueryNames[k],
   sql |-> QueryNames[k],
   executed |-> TRUE,
   body |-> IF outs[k] THEN "results" ELSE "error",
   e |-> IF outs[k] THEN 0 ELSE base + FailedUpTo(outs, k)]

\* The loop leaving at the first query that fails.
QueryLoopStopping(outs, base) ==
  LET bad == {k \in 1..Len(QueryNames) : ~outs[k]}
      last == IF bad = {} THEN Len(QueryNames)
              ELSE CHOOSE k \in bad : \A j \in bad : k <= j
  IN [k \in 1..last |-> QueryEntry(outs, k, base)]

\* The entries of the results file after the loop over queries.items(),
\* outs[k] telling whether query k succeeded; base is the number of
\* exceptions raised before the loop.
QueryLoop(outs, base) == [k \in 1..Len(QueryNames) |-> QueryEntry(outs, k, base)]

\* The exceptions the loop caught, in order.
QueryErrors(outs) ==
  LET bad == SelectSeq([k \in 1..Len(QueryNames) |-> k], LAMBDA k : ~outs[k])
  IN [j \in 1..Len(bad) |-> Err("query", QueryNames[bad[j]])]

export_sample_queries ==
  /\ pc = "queries"
  /\ \/ \E outs \in [1..Len(QueryNames) -> BOOLEAN] :
          /\ results' = [exists |-> TRUE, entries |-> QueryLoop(outs, Len(errors))]
          /\ errors' = errors \o QueryErrors(outs)
          /\ sql' = sql + Len(QueryNames)
          /\ calls' = Append(calls, Call("queries", "", TRUE, 0))
          /\ console' = Say(console, "[QUERY]", "Generated sample query results", "", 0)
          /\ pc' = Enter(NextStep("queries"), tables)
          /\ UNCHANGED <<outcome, exitStatus>>
     \/ \* the results file cannot be opened
        /\ errors' = Append(errors, Err("results_file", ""))
        /\ calls' = Append(calls, Call("queries", "", FALSE, 0))
        /\ Propagate(console, Len(errors) + 1)
        /\ UNCHANGED <<results, sql>>
  /\ UNCHANGED <<run, clock, db, fs, conn, output_dir, tables, tables_info, i,
                 csvFiles, jsonFiles, summary>>

\* ------------------------------------------- run_extraction, lines 303-327
conn_close ==
  /\ pc = "close"
  /\ conn' = "closed"
  /\ calls' = Append(calls, Call("close", "", TRUE, 0))
  /\ pc' = Enter(NextStep("close"), tables)
  /\ UNCHANGED <<run, clock, db, fs, output_dir, tables, tables_info, i, csvFiles,
                 jsonFiles, summary, results, console, errors, sql, outcome,
                 exitStatus>>

Banner ==
  /\ pc = "banner"
  /\ \E ok \in BOOLEAN :
       LET con == Say(Say(console, "[SUCCESS]", "Database extraction completed!", "", 0),
                      "[INFO]", "Results saved to", "", 0)
       IN /\ calls' = Append(calls, Call("banner", "", ok, 0))
          /\ IF ok
               THEN /\ console' = con
                    /\ pc' = "exited"
                    /\ outcome' = "success"
                    /\ exitStatus' = <<0>>
                    /\ UNCHANGED errors
               ELSE \* os.walk / os.path.getsize fails while listing the files
                    /\ errors' = Append(errors, Err("listing", ""))
                    /\ Propagate(con, Len(errors) + 1)
  /\ UNCHANGED <<run, clock, db, fs, conn, output_dir, tables, tables_info, i,
                 csvFiles, jsonFiles, summary, results, sql>>

\* ------------------------------------------------------------ __main__
Running == pc \in {"connect", "mkdir", "list", "describe", "csv", "json",
                   "summary", "queries", "close", "banner"}

\* Ctrl-C while run_extraction runs: the except KeyboardInterrupt branch.
Interrupt ==
  /\ Running
  /\ console' = Say(console, "[WARN]", "Extraction cancelled by user", "", 0)
  /\ pc' = "exited"
  /\ outcome' = "cancelled"
  /\ exitStatus' = <<0>>
  /\ UNCHANGED <<run, clock, db, fs, conn, output_dir, tables, tables_info, i,
                 csvFiles, jsonFiles, summary, results, calls, errors, sql>>

\* The state of a fresh process: extractor = DatabaseExtractor().
Fresh ==
  /\ pc = "connect"
  /\ conn = "none"
  /\ output_dir = <<"database_export">>
  /\ tables = <<>>
  /\ tables_info = [t \in {} |-> 0]
  /\ i = 1
  /\ csvFiles = [t \in TableSet |-> NoFile]
  /\ jsonFiles = [t \in TableSet |-> NoFile]
  /\ summary = NoSummary
  /\ results = NoResults
  /\ console = <<>>
  /\ calls = <<>>
  /\ errors = <<>>
  /\ sql = 0
  /\ outcome = "running"
  /\ exitStatus = <<>>

Databases == UNION {[S -> RowCounts] : S \in SUBSET TableSet}

Init ==
  /\ run = 1
  /\ clock = 0
  /\ db \in Databases
  /\ fs = {}
  /\ Fresh

Next ==
  \/ connect
  \/ create_output_structure
  \/ get_all_tables
  \/ get_table_info
  \/ ExportCsv
  \/ ExportJson
  \/ generate_summary_report
  \/ export_sample_queries
  \/ conn_close
  \/ Banner
  \/ Interrupt

Spec == Init /\ [][Next]_vars

\* ------------------------------------------------ the script run again
\* The script is started again after a run has exited: a new process with a
\* new DatabaseExtractor, on the same disk, database and wall clock.
StartRun ==
  /\ pc = "exited"
  /\ run < MaxRuns
  /\ run' = run + 1
  /\ pc' = "connect"
  /\ conn' = "none"
  /\ output_dir' = <<"database_export">>
  /\ tables' = <<>>
  /\ tables_info' = [t \in {} |-> 0]
  /\ i' = 1
  /\ csvFiles' = [t \in TableSet |-> NoFile]
  /\ jsonFiles' = [t \in TableSet |-> NoFile]
  /\ summary' = NoSummary
  /\ results' = NoResults
  /\ console' = <<>>
  /\ calls' = <<>>
  /\ errors' = <<>>
  /\ sql' = 0
  /\ outcome' = "running"
  /\ exitStatus' = <<>>
  /\ UNCHANGED <<clock, db, fs>>

NextRuns == Next \/ StartRun

SpecRuns == Init /\ [][NextRuns]_vars

\* ------------------------------- export_table_to_json called on its own
\* A DatabaseExtractor that has connected and created its output directory;
\* export_table_to_json is then called with any table and any limit.
InitJson ==
  /\ run = 1
  /\ clock \in 0..MaxClock
  /\ db \in Databases
  /\ pc = "harness"
  /\ conn = "open"
  /\ output_dir = DirName(strftime(clock))
  /\ fs = {[dir |-> output_dir, run |-> run]}
  /\ tables = <<>>
  /\ tables_info = [t \in {} |-> 0]
  /\ i = 1
  /\ csvFiles = [t \in TableSet |-> NoFile]
  /\ jsonFiles = [t \in TableSet |-> NoFile]
  /\ summary = NoSummary
  /\ results = NoResults
  /\ console = Say(Say(<<>>, "[OK]", "Connected to database", "", 0),
                   "[INFO]", "Created export directory", "", 0)
  /\ calls = <<Call("connect", "", TRUE, 0), Call("mkdir", "", TRUE, 0)>>
  /\ errors = <<>>
  /\ sql = 0
  /\ outcome = "running"
  /\ exitStatus = <<>>

JsonCalls == SelectSeq(calls, LAMBDA c : c.op = "json")

CallJson ==
  /\ pc = "harness"
  /\ Len(JsonCalls) < MaxCalls
  /\ \E t \in DOMAIN db, limit \in 0..MaxLimit, ok \in BOOLEAN :
       export_table_to_json(t, limit, ok)
  /\ UNCHANGED <<pc, run, clock, db, fs, conn, output_dir, tables, tables_info, i,
                 csvFiles, summary, results, outcome, exitStatus>>

NextJson == CallJson

SpecJson == InitJson /\ [][NextJson]_vars

\* =============================================================== claims
Count(op, t) == Len(SelectSeq(calls, LAMBDA c : c.op = op /\ c.arg = t))

Made(op) == \E k \in 1..Len(calls) : calls[k].op = op

Failed(op) == \E k \in 1..Len(calls) : calls[k].op = op /\ ~calls[k].ok

Listed == {tables[k] : k \in 1..Len(tables)}

\* get_all_tables has returned and every table it returned has a descriptor.
DescribeDone ==
  /\ \E k \in 1..Len(calls) : calls[k].op = "list" /\ calls[k].ok
  /\ \A t \in Listed : t \in DOMAIN tables_info

InExportLoop == pc \in {"csv", "json"}

\* C1: no table ever gets more than one CSV or more than one JSON export call,
\* and only listed tables get any; once every listed table is described and
\* the export loop has been left (by finishing it or by an exception, but not
\* by the user's Ctrl-C), every listed table has had exactly one CSV call and
\* exactly one JSON call, whatever the calls returned.
C1_OneCsvOneJsonPerTable ==
  /\ \A t \in TableSet :
       /\ Count("csv", t) <= 1
       /\ Count("json", t) <= 1
       /\ t \notin Listed => Count("csv", t) = 0 /\ Count("json", t) = 0
  /\ (DescribeDone /\ ~InExportLoop /\ outcome # "cancelled")
       => \A t \in Listed : Count("csv", t) = 1 /\ Count("json", t) = 1

C1_Witness ==
  /\ outcome = "success"
  /\ Len(tables) = 2
  /\ \E k \in 1..Len(calls) : calls[k] = Call("csv", tables[1], FALSE, 0)
  /\ \E k \in 1..Len(calls) : calls[k] = Call("json", tables[2], FALSE, DefaultLimit)
  /\ \A t \in Listed : Count("csv", t) = 1 /\ Count("json", t) = 1

BannerPrinted ==
  \E k \in 1..Len(console) :
    console[k].tag = "[ERROR]" /\ console[k].what = "Extraction failed"

\* C2: a run that an exception escaping run_extraction ended has printed the
\* error banner and exited with a non-zero status; a successful run exits 0.
C2_NonZeroExitOnFailure ==
  /\ outcome = "failed" => BannerPrinted /\ exitStatus # <<>> /\ exitStatus[1] # 0
  /\ outcome = "success" => exitStatus = <<0>>

Severity == {"[WARN]", "[ERROR]"}

Printed(e) ==
  \E k \in 1..Len(console) : console[k].e = e /\ console[k].tag \in Severity

Mentioned(e) == \E k \in 1..Len(console) : console[k].e = e

InResultsFile(e) ==
  \E k \in 1..Len(results.entries) :
    results.entries[k].body = "error" /\ results.entries[k].e = e

\* C3 as stated: every exception raised during the run has a console line
\* with a severity tag.
C3_EveryErrorPrinted == \A e \in 1..Len(errors) : Printed(e)

\* C3 amended: every exception other than a failure of one of the sample
\* queries has a console line tagged [WARN] or [ERROR]; a sample query's
\* failure is written to the results file and has no console line at all.
C3_EveryErrorButQueryPrinted ==
  \A e \in 1..Len(errors) :
    IF errors[e].kind = "query"
      THEN InResultsFile(e) /\ ~Mentioned(e)
      ELSE Printed(e)

C3_Witness ==
  /\ \E e \in 1..Len(errors) : errors[e].kind = "csv" /\ Printed(e)
  /\ \E e \in 1..Len(errors) : errors[e].kind = "json" /\ Printed(e)
  /\ \E e \in 1..Len(errors) : errors[e].kind = "query" /\ ~Mentioned(e)
  /\ \E e \in 1..Len(errors) : errors[e].kind = "listing" /\ Printed(e)

\* C4: no two runs of the script use the same output directory.
C4_DirectoryUniquePerRun ==
  \A a \in fs : \A b \in fs : a.run # b.run => a.dir # b.dir

Closes == Count("close", "")

\* The call that raised the exception which ended the run.
FailedBeforeClose ==
  /\ outcome = "failed"
  /\ \E k \in 1..Len(calls) :
       /\ ~calls[k].ok
       /\ calls[k].op \in {"connect", "mkdir", "list", "describe", "summary", "queries"}

\* C5: the connection is closed at most once; a run that reaches the end of
\* run_extraction has closed it exactly once; it is closed only after
\* export_sample_queries has returned; and a run ended by an exception in an
\* earlier step has not closed it.
C5_ClosedOnceAtEndOrNever ==
  /\ Closes <= 1
  /\ (conn = "closed") <=> (Closes = 1)
  /\ outcome = "success" => Closes = 1
  /\ Closes = 1 =>
       \E j \in 1..Len(calls) : \E k \in 1..Len(calls) :
         /\ j < k
         /\ calls[j].op = "queries" /\ calls[j].ok
         /\ calls[k].op = "close"
  /\ FailedBeforeClose => Closes = 0 /\ conn # "closed"

C5_Witness ==
  /\ outcome = "success"
  /\ Closes = 1
  /\ conn = "closed"
  /\ calls[Len(calls) - 1].op = "close"

Ops == [k \in 1..Len(calls) |-> <<calls[k].op, calls[k].arg>>]

DescribeOps(ts) == [k \in 1..Len(ts) |-> <<"describe", ts[k]>>]

ExportOps(ts) ==
  [k \in 1..(2 * Len(ts)) |->
     IF k % 2 = 1 THEN <<"csv", ts[(k + 1) \div 2]>> ELSE <<"json", ts[k \div 2]>>]

\* C6: the calls of a completed run are, in this order and with nothing else
\* between them: connect, create the directories, list the tables, describe
\* each table in listing order, export each table in listing order (CSV then
\* JSON), write the summary, run the sample queries, close the connection,
\* print the banner; and the success banner is the last thing printed.
C6_StepsInOrder ==
  outcome = "success" =>
    /\ Ops = <<<<"connect", "">>, <<"mkdir", "">>, <<"list", "">>>>
               \o DescribeOps(tables) \o ExportOps(tables)
               \o <<<<"summary", "">>, <<"queries", "">>, <<"close", "">>,
                    <<"banner", "">>>>
    /\ Len(console) >= 2
    /\ console[Len(console) - 1].tag = "[SUCCESS]"
    /\ console[Len(console)].what = "Results saved to"

C6_Witness ==
  /\ outcome = "success"
  /\ Len(tables) = 2
  /\ Len(calls) = 13
  /\ calls[6].op = "csv" /\ calls[6].arg = tables[1]
  /\ calls[9].op = "json" /\ calls[9].arg = tables[2]

QueriesRan == \E k \in 1..Len(calls) : calls[k].op = "queries" /\ calls[k].ok

\* C7: once export_sample_queries has run, the results file holds one entry
\* per query of the fixed list, in order, each with its header and SQL text
\* and each executed; the entry of a query that failed holds the message of
\* the exception in place of results, every query after it is still executed
\* and present, and the runner returns normally: the run goes on to close
\* the connection unless the user cancels it.
C7_QueryFailureIsolated ==
  /\ results.exists <=> QueriesRan
  /\ results.exists =>
       /\ Len(results.entries) = Len(QueryNames)
       /\ \A k \in 1..Len(results.entries) :
            /\ results.entries[k].name = QueryNames[k]
            /\ results.entries[k].sql = QueryNames[k]
            /\ results.entries[k].executed
            /\ results.entries[k].body = "error" =>
                 /\ results.entries[k].e \in 1..Len(errors)
                 /\ errors[results.entries[k].e] = Err("query", QueryNames[k])
  /\ \A e \in 1..Len(errors) :
       errors[e].kind = "query" =>
         /\ QueriesRan
         /\ \E k \in 1..Len(results.entries) :
              /\ results.entries[k].name = errors[e].arg
              /\ results.entries[k].body = "error"
              /\ results.entries[k].e = e
              /\ \A j \in (k + 1)..Len(QueryNames) :
                   /\ j <= Len(results.entries)
                   /\ results.entries[j].name = QueryNames[j]
                   /\ results.entries[j].executed
  /\ (calls # <<>> /\ calls[Len(calls)].op = "queries" /\ calls[Len(calls)].ok)
       => (pc = "close" /\ outcome = "running") \/ outcome = "cancelled"

C7_Witness ==
  /\ pc = "close"
  /\ results.exists
  /\ results.entries[1].body = "error"
  /\ results.entries[2].body = "results"
  /\ results.entries[3].body = "error"
  /\ results.entries[4].body = "results"

FatalSetup ==
  \E k \in 1..Len(calls) :
    calls[k].op \in {"connect", "list", "describe"} /\ ~calls[k].ok

ExportFailed ==
  \E k \in 1..Len(calls) : calls[k].op \in {"csv", "json"} /\ ~calls[k].ok

\* C8: when connect, get_all_tables or get_table_info raises, the run ends
\* there as failed: no CSV or JSON export is attempted, no summary is written
\* and no sample query is run; and when an export call fails, the run still
\* makes the CSV and the JSON call of every listed table before it leaves
\* the export loop (unless the user cancels it).
C8_FatalSetupAbortsExportFailureDoesNot ==
  /\ FatalSetup =>
       /\ pc = "exited" /\ outcome = "failed"
       /\ ~Made("csv") /\ ~Made("json") /\ ~Made("summary") /\ ~Made("queries")
       /\ \A t \in TableSet : ~csvFiles[t].exists /\ ~jsonFiles[t].exists
       /\ ~summary.written
       /\ ~results.exists
       /\ ~calls[Len(calls)].ok
       /\ calls[Len(calls)].op \in {"connect", "list", "describe"}
  /\ (ExportFailed /\ ~InExportLoop /\ outcome # "cancelled") =>
       \A t \in Listed : Count("csv", t) = 1 /\ Count("json", t) = 1

C8_Witness ==
  /\ Len(tables) = 2
  /\ calls[Len(calls)] = Call("describe", tables[2], FALSE, 0)
  /\ tables[1] \in DOMAIN tables_info
  /\ outcome = "failed"

RECURSIVE SumRowCounts(_, _)
SumRowCounts(info, S) ==
  IF S = {} THEN 0
  ELSE LET t == CHOOSE x \in S : TRUE
       IN info[t].row_count + SumRowCounts(info, S \ {t})

SummaryRight ==
  summary.written =>
    /\ summary.total_tables = Cardinality(DOMAIN tables_info)
    /\ summary.total_tables = Len(tables)
    /\ summary.total_rows = SumRowCounts(tables_info, DOMAIN tables_info)
    /\ (DOMAIN db = {"sessions", "game_ticks"} /\ db["sessions"] = 5
          /\ db["game_ticks"] = 0)
         => summary.total_tables = 2 /\ summary.total_rows = 5

\* C9: the summary written has total_tables equal to the number of table
\* descriptors and total_rows equal to the sum of their row_count, whether
\* or not the exports succeeded (sessions with 5 rows and game_ticks with 0
\* give 2 and 5); and the summary step executes no query.
C9_SummaryTotals ==
  /\ []SummaryRight
  /\ [][pc = "summary" => sql' = sql]_vars

C9_Witness ==
  /\ summary.written
  /\ DOMAIN db = {"sessions", "game_ticks"}
  /\ db["sessions"] = 5
  /\ db["game_ticks"] = 0
  /\ summary.total_tables = 2
  /\ summary.total_rows = 5
  /\ ExportFailed

\* The last successful JSON export of table t is call k.
LastJsonOf(t, k) ==
  /\ calls[k].op = "json" /\ calls[k].arg = t /\ calls[k].ok
  /\ \A j \in (k + 1)..Len(calls) :
       ~(calls[j].op = "json" /\ calls[j].arg = t /\ calls[j].ok)

\* C10: after a successful export_table_to_json(t, limit) the JSON file of t
\* holds min(limit, rows of t) records, so never more than limit.
C10_JsonAtMostLimit ==
  \A t \in DOMAIN db : \A k \in 1..Len(calls) :
    LastJsonOf(t, k) =>
      /\ jsonFiles[t].exists
      /\ Len(jsonFiles[t].data) <= calls[k].limit
      /\ Len(jsonFiles[t].data) = Min(calls[k].limit, db[t])

C10_Witness ==
  \E t \in DOMAIN db : \E k \in 1..Len(calls) :
    /\ LastJsonOf(t, k)
    /\ calls[k].limit = 2
    /\ db[t] = 5
    /\ Len(jsonFiles[t].data) = 2

====
